---------------------------- MODULE Spec2Model ----------------------------
(***************************************************************************)
(* Resumable chunked upload (aosang/node_upload).                          *)
(*                                                                         *)
(* Three state machines share this module, each with its own               *)
(* specification:                                                          *)
(*                                                                         *)
(*   Spec        the server, src/upload_server/app.js: POST /upload-chunk  *)
(*               and POST /merge-chunks over the three directories         *)
(*               temp_chunks, upload_completed and uploads.                *)
(*   SpecWorker  the compression correlator: beforeUpload in Home.vue and  *)
(*               self.onmessage in imageWorker.js.                         *)
(*   SpecClient  the transfer scheduler and the chunk uploader of          *)
(*               Home.vue: customHttpRequest, processQueue and             *)
(*               uploadFileWithChunks.                                     *)
(*                                                                         *)
(* Granularity.  JavaScript runs a handler without interruption up to its  *)
(* next await.  One action is therefore one such segment: the awaited      *)
(* operation takes effect and the code after it runs up to the next await  *)
(* (or to the response).  Segments of different handlers interleave        *)
(* freely.  An await on an operation that neither reads nor writes the     *)
(* modelled state (the stream's 'finish' event, fs.ensureDir of a          *)
(* directory that exists) is folded into the segment that follows it.      *)
(*                                                                         *)
(* The filesystem is reliable: a call fails only for a reason the model    *)
(* holds (the file it reads is absent).  Blobs are opaque values, a chunk  *)
(* is one cell of a file, and a file is the sequence of its cells.         *)
(***************************************************************************)
EXTENDS Integers, Sequences, FiniteSets, TLC

(***************************************************************************)
(* Bounds of the model.                                                    *)
(***************************************************************************)
MaxChunks == 2
MaxClock == 2
MaxHandlers == 2
MaxBlob == 2
MaxRequests == 5

(***************************************************************************)
(* Server: values.                                                         *)
(***************************************************************************)
FileIds == {"f1", "f2"}
\* A filename is <<basename, ext>>, what path.basename and path.extname
\* split it into.
Filenames == {<<"a", ".png">>}
ChunkIdx == 0 .. (MaxChunks - 1)
Blobs == 1 .. MaxBlob
NoBlob == 0
\* A cell of a file that no write has filled (a hole reads as zero bytes).
Hole == 0
HandlerIds == 1 .. MaxHandlers
NoName == <<>>

\* `${basename}-${Date.now()}${ext}`
FinalFileName(filename, t) == <<filename[1], t, filename[2]>>

NoRes == [status |-> 0, filename |-> NoName, message |-> <<>>]

IdleHandler ==
  [pc |-> "idle", fileId |-> "f1", filename |-> <<"a", ".png">>,
   totalChunks |-> 1, i |-> 0, finalFileName |-> NoName, res |-> NoRes,
   prior |-> NoName, created |-> FALSE, touched |-> FALSE,
   stale |-> NoName, expect |-> <<>>]

VARIABLES
  now,          \* Date.now()
  chunkDirs,    \* the transferIds whose directory exists under temp_chunks
  temp_chunks,  \* temp_chunks/<fileId>/chunk-<k>: the blob, or NoBlob
  completed,    \* upload_completed/<fileId>: the saved name, or NoName
  upload_dir,   \* uploads/: a function from the names on disk to contents
  handlers,     \* the /merge-chunks handlers in flight
  chunkRes,     \* the last response of /upload-chunk
  createdBy,    \* history: the artifact names each transferId's merges created
  returned,     \* history: the last success response of a merge per transferId
  extDeleted,   \* history: an artifact was deleted from outside the server
  requests      \* history: the requests and deletions so far

serverVars ==
  <<chunkDirs, temp_chunks, completed, upload_dir, handlers, chunkRes,
    createdBy, returned, extDeleted, requests>>

VARIABLES
  worker,        \* the Worker instance exists (let worker, Home.vue 44)
  tasks,         \* the beforeUpload calls: their closure and their promise
  msgListeners,  \* the tasks whose handleMessage is registered
  errListeners,  \* the tasks whose handleError is registered
  inbox,         \* the requests the worker has received and not answered
  outbox,        \* the worker's replies not yet dispatched on the main thread
  settleSeq      \* history: the tasks in the order their promises settled

workerVars ==
  <<worker, tasks, msgListeners, errListeners, inbox, outbox, settleSeq>>

VARIABLES
  uploadQueue,     \* let uploadQueue (Home.vue 42)
  currentUploads,  \* let currentUploads (Home.vue 43)
  localStorage,    \* upload_<fileId>: <<>> or <<the stored object>>
  transfers,       \* the uploadFileWithChunks calls, one per file of the list
  acknowledged     \* history: the indices /upload-chunk has acknowledged

clientVars ==
  <<uploadQueue, currentUploads, localStorage, transfers, acknowledged>>

vars == <<now, serverVars, workerVars, clientVars>>

\* What a step of one machine leaves alone.
ServerFrame == UNCHANGED <<now, workerVars, clientVars>>
WorkerFrame == UNCHANGED <<now, serverVars, clientVars>>
ClientFrame == UNCHANGED <<now, serverVars, workerVars>>

NoReturn == [filename |-> <<>>, totalChunks |-> 0, name |-> NoName]

ServerInit ==
  /\ chunkDirs = {}
  /\ temp_chunks = [f \in FileIds |-> [k \in ChunkIdx |-> NoBlob]]
  /\ completed = [f \in FileIds |-> NoName]
  /\ upload_dir = [n \in {} |-> <<>>]
  /\ handlers = [h \in HandlerIds |-> IdleHandler]
  /\ chunkRes = 0
  /\ createdBy = [f \in FileIds |-> {}]
  /\ returned = [f \in FileIds |-> NoReturn]
  /\ extDeleted = FALSE
  /\ requests = 0

(***************************************************************************)
(* Server: the filesystem primitives the handlers use.                     *)
(***************************************************************************)
\* fs.existsSync(chunkPath)
ChunkExists(f, k) == f \in chunkDirs /\ temp_chunks[f][k] # NoBlob

\* fs.createWriteStream(finalFilePath): flags 'w' create the file, or
\* truncate the one that is there.
CreateWriteStream(dir, name) ==
  [n \in (DOMAIN dir) \cup {name} |-> IF n = name THEN <<>> ELSE dir[n]]

\* writeStream.write(chunkBuffer): the stream's own descriptor writes at its
\* own offset, which is the number of cells this stream has written; cells
\* the file does not have yet are holes.
WriteAt(content, pos, blob) ==
  [j \in 1 .. (IF Len(content) > pos + 1 THEN Len(content) ELSE pos + 1) |->
     IF j = pos + 1 THEN blob
     ELSE IF j <= Len(content) THEN content[j] ELSE Hole]

StreamWrite(dir, name, pos, blob) ==
  IF name \in DOMAIN dir
    THEN [dir EXCEPT ![name] = WriteAt(dir[name], pos, blob)]
    ELSE dir

\* The response a handler sends, and the end of the handler.
Respond(rec, status, name, message) ==
  [rec EXCEPT !.pc = "done",
              !.res = [status |-> status, filename |-> name,
                       message |-> message]]

\* The positions of a /merge-chunks handler between the marker check and the
\* marker write: the reassembly.
Reassembling == {"readChunk", "removeDir", "writeMarker"}

\* What /merge-chunks has read of the chunk storage when it starts the loop:
\* the stored blob of every index below totalChunks (history, for the
\* content of the artifact).
StoredBlobs(f, n) == [j \in 1 .. n |-> temp_chunks[f][j - 1]]

(***************************************************************************)
(* POST /upload-chunk (app.js 48-81).  multer has stored the part before   *)
(* the handler runs; the handler is synchronous.                           *)
(***************************************************************************)
\* A handler that makes the chunk directory before it looks at req.file.
UploadChunkEnsuresDirFirst(f, k, blob, hasFile) ==
  /\ ServerFrame
  /\ requests < MaxRequests
  /\ requests' = requests + 1
  /\ chunkDirs' = chunkDirs \cup {f}
  /\ IF ~hasFile
       THEN /\ chunkRes' = 400
            /\ UNCHANGED <<temp_chunks, handlers>>
       ELSE /\ temp_chunks' = [temp_chunks EXCEPT ![f][k] = blob]
            /\ chunkRes' = 200
            /\ handlers' =
                 [h \in HandlerIds |->
                    IF handlers[h].pc \notin {"idle", "done"}
                       /\ handlers[h].fileId = f
                      THEN [handlers[h] EXCEPT !.expect = <<>>]
                      ELSE handlers[h]]
  /\ UNCHANGED <<completed, upload_dir, createdBy, returned, extDeleted>>

UploadChunk(f, k, blob, hasFile) ==
  /\ ServerFrame
  /\ requests < MaxRequests
  /\ requests' = requests + 1
  /\ IF ~hasFile
       THEN /\ chunkRes' = 400
            /\ UNCHANGED <<chunkDirs, temp_chunks, handlers>>
       ELSE /\ chunkDirs' = chunkDirs \cup {f}
            /\ temp_chunks' = [temp_chunks EXCEPT ![f][k] = blob]
            /\ chunkRes' = 200
            \* history: a merge in flight for f no longer follows the uploads
            /\ handlers' =
                 [h \in HandlerIds |->
                    IF handlers[h].pc \notin {"idle", "done"}
                       /\ handlers[h].fileId = f
                      THEN [handlers[h] EXCEPT !.expect = <<>>]
                      ELSE handlers[h]]
  /\ UNCHANGED <<completed, upload_dir, createdBy, returned, extDeleted>>

(***************************************************************************)
(* POST /merge-chunks (app.js 84-195).                                     *)
(***************************************************************************)
\* Lines 123-155 up to the first await of the loop: the directory check,
\* the name, the write stream, the check of chunk 0.
ReassembleStart(rec) ==
  IF rec.fileId \notin chunkDirs
    THEN Respond([rec EXCEPT !.touched = TRUE], 400, NoName, <<"dir">>)
    ELSE LET r1 == [rec EXCEPT !.finalFileName = FinalFileName(rec.filename, now),
                               !.created = TRUE,
                               !.touched = TRUE,
                               !.i = 0,
                               !.expect = StoredBlobs(rec.fileId, rec.totalChunks)]
         IN  IF ChunkExists(rec.fileId, 0)
               THEN [r1 EXCEPT !.pc = "readChunk"]
               ELSE Respond(r1, 400, NoName, <<"chunk", 0>>)

\* The uploads directory after the same lines.
ReassembleDir(rec) ==
  IF rec.fileId \notin chunkDirs
    THEN upload_dir
    ELSE CreateWriteStream(upload_dir, FinalFileName(rec.filename, now))

ReassembleCreated(rec) ==
  IF rec.fileId \notin chunkDirs
    THEN createdBy
    ELSE [createdBy EXCEPT ![rec.fileId] =
            @ \cup {FinalFileName(rec.filename, now)}]

\* Lines 84-97: the request arrives; the marker is looked up.
MergeChunks(h, f, filename, n) ==
  /\ ServerFrame
  /\ handlers[h].pc = "idle"
  /\ requests < MaxRequests
  /\ requests' = requests + 1
  /\ LET rec == [IdleHandler EXCEPT
                   !.fileId = f, !.filename = filename, !.totalChunks = n,
                   !.prior = IF /\ returned[f].filename = filename
                                /\ returned[f].totalChunks = n
                                /\ returned[f].name \in DOMAIN upload_dir
                               THEN returned[f].name ELSE NoName]
     IN  IF completed[f] # NoName
           THEN /\ handlers' = [handlers EXCEPT ![h] = [rec EXCEPT !.pc = "readMarker"]]
                /\ UNCHANGED <<upload_dir, createdBy>>
           ELSE /\ handlers' = [handlers EXCEPT ![h] = ReassembleStart(rec)]
                /\ upload_dir' = ReassembleDir(rec)
                /\ createdBy' = ReassembleCreated(rec)
  /\ UNCHANGED <<chunkDirs, temp_chunks, completed, chunkRes, returned,
                 extDeleted>>

\* Lines 97-120: the marker has been read.
MergeReadMarker(h) ==
  LET rec == handlers[h]
      savedFilename == completed[rec.fileId]
  IN  /\ rec.pc = "readMarker"
      /\ ServerFrame
      /\ IF savedFilename = NoName
           THEN \* readFile throws (the marker is gone): line 119
                /\ handlers' = [handlers EXCEPT ![h].pc = "removeMarker"]
                /\ UNCHANGED returned
           ELSE IF savedFilename \in DOMAIN upload_dir
             THEN /\ handlers' = [handlers EXCEPT ![h] =
                                    Respond(rec, 200, savedFilename, <<"skip">>)]
                  /\ returned' = [returned EXCEPT ![rec.fileId] =
                                    [filename |-> rec.filename,
                                     totalChunks |-> rec.totalChunks,
                                     name |-> savedFilename]]
             ELSE /\ handlers' = [handlers EXCEPT ![h].pc = "removeMarker",
                                                  ![h].stale = savedFilename]
                  /\ UNCHANGED returned
      /\ UNCHANGED <<chunkDirs, temp_chunks, completed, upload_dir,
                     chunkRes, createdBy, extDeleted, requests>>

\* Lines 113 and 119, then 123-155: the marker is removed and the handler
\* goes on to the reassembly.
MergeRemoveMarker(h) ==
  LET rec == handlers[h]
  IN  /\ rec.pc = "removeMarker"
      /\ ServerFrame
      /\ completed' = [completed EXCEPT ![rec.fileId] = NoName]
      /\ handlers' = [handlers EXCEPT ![h] = ReassembleStart(rec)]
      /\ upload_dir' = ReassembleDir(rec)
      /\ createdBy' = ReassembleCreated(rec)
      /\ UNCHANGED <<chunkDirs, temp_chunks, chunkRes, returned,
                     extDeleted, requests>>

\* Lines 141-158: readFile of chunk i has ended; the buffer is written and
\* the loop goes on to the next index.
MergeReadChunk(h) ==
  LET rec == handlers[h]
      f == rec.fileId
      i == rec.i
  IN  /\ rec.pc = "readChunk"
      /\ ServerFrame
      /\ IF ~ChunkExists(f, i)
           THEN \* readFile throws: the outer catch, line 187
                /\ handlers' = [handlers EXCEPT ![h] =
                                  Respond(rec, 500, NoName, <<"error">>)]
                /\ UNCHANGED upload_dir
           ELSE /\ upload_dir' = StreamWrite(upload_dir, rec.finalFileName, i,
                                             temp_chunks[f][i])
                /\ handlers' = [handlers EXCEPT ![h] =
                     IF i + 1 < rec.totalChunks
                       THEN IF ChunkExists(f, i + 1)
                              THEN [rec EXCEPT !.i = i + 1]
                              ELSE Respond([rec EXCEPT !.i = i + 1], 400, NoName,
                                           <<"chunk", i + 1>>)
                       ELSE [rec EXCEPT !.i = i + 1, !.pc = "removeDir"]]
      /\ UNCHANGED <<chunkDirs, temp_chunks, completed, chunkRes,
                     createdBy, returned, extDeleted, requests>>

\* Lines 160-167: the stream has finished; the chunk directory is removed.
MergeRemoveDir(h) ==
  LET rec == handlers[h]
  IN  /\ rec.pc = "removeDir"
      /\ ServerFrame
      /\ chunkDirs' = chunkDirs \ {rec.fileId}
      /\ temp_chunks' = [temp_chunks EXCEPT ![rec.fileId] =
                           [k \in ChunkIdx |-> NoBlob]]
      /\ handlers' = [handlers EXCEPT ![h].pc = "writeMarker"]
      /\ UNCHANGED <<completed, upload_dir, chunkRes, createdBy,
                     returned, extDeleted, requests>>

\* Lines 169-186: the marker is written and the success response is sent.
MergeWriteMarker(h) ==
  LET rec == handlers[h]
  IN  /\ rec.pc = "writeMarker"
      /\ ServerFrame
      /\ completed' = [completed EXCEPT ![rec.fileId] = rec.finalFileName]
      /\ handlers' = [handlers EXCEPT ![h] =
                        Respond(rec, 200, rec.finalFileName, <<"ok">>)]
      /\ returned' = [returned EXCEPT ![rec.fileId] =
                        [filename |-> rec.filename,
                         totalChunks |-> rec.totalChunks,
                         name |-> rec.finalFileName]]
      /\ UNCHANGED <<chunkDirs, temp_chunks, upload_dir, chunkRes,
                     createdBy, extDeleted, requests>>

\* The response has left: the handler's slot is free again.
MergeRetire(h) ==
  /\ ServerFrame
  /\ handlers[h].pc = "done"
  /\ handlers' = [handlers EXCEPT ![h] = IdleHandler]
  /\ UNCHANGED <<chunkDirs, temp_chunks, completed, upload_dir, chunkRes,
                 createdBy, returned, extDeleted, requests>>

(***************************************************************************)
(* The environment of the server.                                          *)
(***************************************************************************)
\* Date.now() moves on.
Tick ==
  /\ now < MaxClock
  /\ now' = now + 1
  /\ UNCHANGED <<serverVars, workerVars, clientVars>>

\* Somebody deletes an artifact from uploads/ (one that no merge in flight
\* is producing).
DeleteArtifact(name) ==
  /\ ServerFrame
  /\ name \in DOMAIN upload_dir
  /\ requests < MaxRequests
  /\ requests' = requests + 1
  /\ \A h \in HandlerIds :
       ~(handlers[h].pc \in Reassembling /\ handlers[h].finalFileName = name)
  /\ upload_dir' = [n \in (DOMAIN upload_dir) \ {name} |-> upload_dir[n]]
  /\ handlers' = [h \in HandlerIds |->
                    IF handlers[h].prior = name
                      THEN [handlers[h] EXCEPT !.prior = NoName]
                      ELSE handlers[h]]
  /\ extDeleted' = TRUE
  /\ UNCHANGED <<chunkDirs, temp_chunks, completed, chunkRes, createdBy,
                 returned>>

ServerStep ==
  \/ \E f \in FileIds, k \in ChunkIdx, blob \in Blobs, hasFile \in BOOLEAN :
       UploadChunk(f, k, blob, hasFile)
  \/ \E h \in HandlerIds, f \in FileIds, filename \in Filenames,
        n \in 1 .. MaxChunks : MergeChunks(h, f, filename, n)
  \/ \E h \in HandlerIds : MergeReadMarker(h)
  \/ \E h \in HandlerIds : MergeRemoveMarker(h)
  \/ \E h \in HandlerIds : MergeReadChunk(h)
  \/ \E h \in HandlerIds : MergeRemoveDir(h)
  \/ \E h \in HandlerIds : MergeWriteMarker(h)
  \/ \E h \in HandlerIds : MergeRetire(h)
  \/ \E name \in DOMAIN upload_dir : DeleteArtifact(name)

(***************************************************************************)
(* The compression correlator: beforeUpload (Home.vue 104-168) and the     *)
(* worker's self.onmessage (imageWorker.js 2-20).                          *)
(*                                                                         *)
(* A file is [name, size, data]; data stands for its bytes and is the      *)
(* number of the call that submits it, so that no two submissions carry    *)
(* the same bytes.  Sizes count MB.  Math.random() is modelled as never    *)
(* returning the same value twice.                                         *)
(***************************************************************************)
MaxTasks == 3
maxSizeInMB == 3

TaskIds == 1 .. MaxTasks
TaskNames == {"x.png"}
TaskSizes == {1, maxSizeInMB}
Rands == 1 .. MaxTasks
NoTaskId == <<>>

NoTask ==
  [state |-> "free", file |-> [name |-> "", size |-> 0, data |-> 0],
   taskId |-> NoTaskId, value |-> <<>>, settledBy |-> 0]

WorkerIdle ==
  /\ worker = TRUE
  /\ tasks = [t \in TaskIds |-> NoTask]
  /\ msgListeners = {}
  /\ errListeners = {}
  /\ inbox = {}
  /\ outbox = <<>>
  /\ settleSeq = <<>>

\* `${file.name}_${file.size}_${Date.now()}_${Math.random()}`
TaskIdOf(file, t, rnd) == <<file.name, file.size, t, rnd>>

\* compressImage (imageWorker.js 22-48): a new File of the same name whose
\* bytes are the JPEG encoding of the input's.
compressImage(file) ==
  [name |-> file.name, type |-> "image/jpeg", data |-> <<"jpeg", file.data>>]

\* handleMessage without the comparison: every reply is taken.
TakesAnyReply(msg, task) == TRUE

\* event.data.taskId === taskId (Home.vue 120)
IsOwnReply(msg, task) == msg.taskId = task.taskId

\* What handleMessage resolves with: the reply's file, tagged with the
\* closure's own file (Home.vue 126-137).
Resolved(msg, task) ==
  [file |-> msg.file,
   _originalFile |-> [name |-> task.file.name, size |-> task.file.size]]

\* beforeUpload(file)
BeforeUpload(t, name, size, rnd) ==
  LET file == [name |-> name, size |-> size, data |-> t]
      taskId == TaskIdOf(file, now, rnd)
  IN  /\ tasks[t].state = "free"
      /\ WorkerFrame
      /\ \A u \in TaskIds :
           tasks[u].taskId # NoTaskId => tasks[u].taskId[4] # rnd
      /\ IF ~(size < maxSizeInMB)
           THEN \* return false
                /\ tasks' = [tasks EXCEPT ![t].state = "refused", ![t].file = file]
                /\ UNCHANGED <<msgListeners, errListeners, inbox>>
           ELSE IF worker
             THEN /\ tasks' = [tasks EXCEPT ![t].state = "pending",
                                            ![t].file = file,
                                            ![t].taskId = taskId]
                  /\ msgListeners' = msgListeners \cup {t}
                  /\ errListeners' = errListeners \cup {t}
                  /\ inbox' = inbox \cup {[file |-> file, taskId |-> taskId]}
             ELSE \* return true
                  /\ tasks' = [tasks EXCEPT ![t].state = "passed", ![t].file = file]
                  /\ UNCHANGED <<msgListeners, errListeners, inbox>>
      /\ UNCHANGED <<worker, outbox, settleSeq>>

\* self.onmessage, to its postMessage: the worker answers one of the
\* requests it holds, in any order; compressImage succeeds or throws.
WorkerReply(req, ok) ==
  /\ WorkerFrame
  /\ worker
  /\ req \in inbox
  /\ inbox' = inbox \ {req}
  /\ outbox' = Append(outbox,
                 IF ok THEN [success |-> TRUE, file |-> compressImage(req.file),
                             taskId |-> req.taskId, of |-> req.file.data]
                       ELSE [success |-> FALSE, file |-> <<>>,
                             taskId |-> req.taskId, of |-> req.file.data])
  /\ UNCHANGED <<worker, tasks, msgListeners, errListeners, settleSeq>>

\* The tasks a message event settles: the registered listeners that take
\* the reply for their own.
Takers(msg) == {t \in msgListeners : IsOwnReply(msg, tasks[t])}

\* Some order of a finite set (the order the listeners are called in).
RECURSIVE SeqOf(_)
SeqOf(S) ==
  IF S = {} THEN <<>>
  ELSE LET x == CHOOSE y \in S : \A z \in S : y <= z
       IN  <<x>> \o SeqOf(S \ {x})

\* A 'message' event whose takers settle without removing their listeners.
DispatchKeepsListeners ==
  /\ WorkerFrame
  /\ worker
  /\ outbox # <<>>
  /\ LET msg == Head(outbox)
         T == Takers(msg)
     IN  /\ tasks' = [t \in TaskIds |->
                        IF t \in T
                          THEN [tasks[t] EXCEPT
                                  !.state = IF msg.success THEN "resolved"
                                            ELSE "rejected",
                                  !.value = IF msg.success
                                              THEN Resolved(msg, tasks[t])
                                              ELSE <<>>,
                                  !.settledBy = msg.of]
                          ELSE tasks[t]]
         /\ settleSeq' = settleSeq \o SeqOf(T)
  /\ outbox' = Tail(outbox)
  /\ UNCHANGED <<worker, inbox, msgListeners, errListeners>>

\* The 'message' event of the oldest reply is dispatched to every registered
\* handleMessage (Home.vue 118-143).
Dispatch ==
  /\ WorkerFrame
  /\ worker
  /\ outbox # <<>>
  /\ LET msg == Head(outbox)
         T == Takers(msg)
     IN  /\ tasks' = [t \in TaskIds |->
                        IF t \in T
                          THEN [tasks[t] EXCEPT
                                  !.state = IF msg.success THEN "resolved"
                                            ELSE "rejected",
                                  !.value = IF msg.success
                                              THEN Resolved(msg, tasks[t])
                                              ELSE <<>>,
                                  !.settledBy = msg.of]
                          ELSE tasks[t]]
         /\ msgListeners' = msgListeners \ T
         /\ errListeners' = errListeners \ T
         /\ settleSeq' = settleSeq \o SeqOf(T)
  /\ outbox' = Tail(outbox)
  /\ UNCHANGED <<worker, inbox>>

\* An 'error' event that reaches only the handleError registered first,
\* the other registrations being dropped.
WorkerErrorFirstOnly ==
  /\ WorkerFrame
  /\ worker
  /\ errListeners # {}
  /\ LET first == CHOOSE t \in errListeners : \A u \in errListeners : t <= u
     IN  /\ tasks' = [tasks EXCEPT ![first].state = "rejected",
                                   ![first].settledBy = 0]
         /\ msgListeners' = msgListeners \ {first}
         /\ settleSeq' = Append(settleSeq, first)
  /\ errListeners' = {}
  /\ UNCHANGED <<worker, inbox, outbox>>

\* The worker's 'error' event reaches every registered handleError
\* (Home.vue 145-150).
WorkerError ==
  /\ WorkerFrame
  /\ worker
  /\ errListeners # {}
  /\ tasks' = [t \in TaskIds |->
                 IF t \in errListeners
                   THEN [tasks[t] EXCEPT !.state = "rejected", !.settledBy = 0]
                   ELSE tasks[t]]
  /\ msgListeners' = msgListeners \ errListeners
  /\ errListeners' = {}
  /\ settleSeq' = settleSeq \o SeqOf(errListeners)
  /\ UNCHANGED <<worker, inbox, outbox>>

\* onUnmounted: worker.terminate(); worker = null (Home.vue 410-416).
Unmount ==
  /\ WorkerFrame
  /\ worker
  /\ worker' = FALSE
  /\ inbox' = {}
  /\ outbox' = <<>>
  /\ UNCHANGED <<tasks, msgListeners, errListeners, settleSeq>>

WorkerStep ==
  \/ \E t \in TaskIds, name \in TaskNames, size \in TaskSizes, rnd \in Rands :
       BeforeUpload(t, name, size, rnd)
  \/ \E req \in inbox, ok \in BOOLEAN : WorkerReply(req, ok)
  \/ Dispatch
  \/ WorkerError
  \/ Unmount

(***************************************************************************)
(* The transfer scheduler and the chunk uploader: customHttpRequest,       *)
(* processQueue and uploadFileWithChunks (Home.vue 176-383).               *)
(*                                                                         *)
(* The files of the list are numbered 1 .. MaxFiles (their uid).  The      *)
(* network is the environment: every request that is in flight ends with   *)
(* a response or with an error, and the model chooses which.  Sizes count  *)
(* bytes.                                                                  *)
(***************************************************************************)
MaxFiles == 4
maxConcurrentUploads == 3
CHUNK_SIZE == 1048576

Uids == 1 .. MaxFiles

\* The files the user picks.  Files 1 and 2 are one file picked twice; the
\* others are small files of their own.  name, size and lastModified are
\* those of the original; compressedSize is file.size after beforeUpload.
PickedFile(u) ==
  IF u <= 2
    THEN [name |-> "a.png", size |-> 2097152, lastModified |-> 7,
          compressedSize |-> CHUNK_SIZE + 1]
    ELSE [name |-> IF u = 3 THEN "b c.png" ELSE "b_c.png",
          size |-> 600000, lastModified |-> u,
          compressedSize |-> 500000]

\* name.replace(/[^a-zA-Z0-9.-]/g, '_') on the names above (Home.vue 62)
SafeName(name) == IF name = "b c.png" THEN "b_c.png" ELSE name

\* getFileIdentifier (Home.vue 58-64)
getFileIdentifier(file) == <<SafeName(file.name), file.size, file.lastModified>>

\* Math.ceil(file.size / CHUNK_SIZE) (Home.vue 229)
TotalChunks(size) == (size + CHUNK_SIZE - 1) \div CHUNK_SIZE

ClientFileIds == {getFileIdentifier(PickedFile(u)) : u \in Uids}

\* A loop that skips nothing.
IncludesNothing(chunks, i) == FALSE

\* uploadedChunks.includes(i) (Home.vue 278)
Includes(chunks, i) == \E j \in 1 .. Len(chunks) : chunks[j] = i

Elems(chunks) == {chunks[j] : j \in 1 .. Len(chunks)}

\* JSON.stringify({ chunks }) and JSON.parse(saved).chunks || []
\* (Home.vue 238, 310); a missing item is <<>>.
Stored(chunks) == <<[chunks |-> chunks]>>
Saved(item) == IF item = <<>> THEN <<>> ELSE item[1].chunks

\* What the response interceptor leaves of a failed request (request.js
\* 14-17 passes errors through): the message of the axios error.
ErrorKinds == {"http400", "http500", "network"}
\* Messages are sequences of words.
ErrorMessage(kind) ==
  CASE kind = "http400" -> <<"Request", "failed", "with", "status", "code", "400">>
    [] kind = "http500" -> <<"Request", "failed", "with", "status", "code", "500">>
    [] OTHER -> <<"Network", "Error">>

\* errorMsg.includes(...) of Home.vue 361; "notExist" is the word both of
\* its texts contain, the one of the server's messages of app.js 128, 149.
MentionsMissing(errorMsg) ==
  \E j \in 1 .. Len(errorMsg) : errorMsg[j] = "notExist"

NoTransfer ==
  [pc |-> "none", fileId |-> <<>>, totalChunks |-> 0, i |-> 0, retry |-> 0,
   uploadedChunks |-> <<>>, outcome |-> "",
   loaded |-> {}, sent |-> {}, attempts |-> 0, exhausted |-> FALSE,
   progress |-> 0, status |-> "pending", onProgress |-> <<>>]

Active == {"verify", "send", "backoff", "merge"}

\* The resume records a browser may hold when the page is opened: none, or
\* an increasing list of chunk indices for the file picked twice.
RECURSIVE IncreasingSeq(_)
IncreasingSeq(S) ==
  IF S = {} THEN <<>>
  ELSE LET x == CHOOSE y \in S : \A z \in S : y <= z
       IN  <<x>> \o IncreasingSeq(S \ {x})

ResumableIdx == 0 .. (TotalChunks(PickedFile(1).compressedSize) - 1)

ClientIdle ==
  /\ uploadQueue = <<>>
  /\ currentUploads = 0
  /\ localStorage = [f \in ClientFileIds |-> <<>>]
  /\ transfers = [u \in Uids |-> NoTransfer]
  /\ acknowledged = [f \in ClientFileIds |-> {}]

ClientInit ==
  /\ uploadQueue = <<>>
  /\ currentUploads = 0
  /\ \E A \in SUBSET ResumableIdx :
       localStorage =
         [f \in ClientFileIds |->
            IF f = getFileIdentifier(PickedFile(1)) /\ A # {}
              THEN Stored(IncreasingSeq(A)) ELSE <<>>]
  /\ transfers = [u \in Uids |-> NoTransfer]
  \* a record found at start holds what earlier visits had acknowledged
  /\ acknowledged = [f \in ClientFileIds |-> Elems(Saved(localStorage[f]))]

\* The client's state as one value, for the synchronous code that several
\* actions share.
ClientState ==
  [q |-> uploadQueue, cur |-> currentUploads, ls |-> localStorage,
   tr |-> transfers, ack |-> acknowledged]

\* The retry loop's condition (Home.vue 300).
RetryLoopGoesOn(retry, success) == retry < 3 /\ ~success

\* A catch that waits after the last attempt as well.
WaitsAfterEveryFailure(retry) == retry < 3

\* The catch's condition (Home.vue 318).
WaitsAndRetries(retry) == retry < 2

\* ((i + 1) / totalChunks) * 100 (Home.vue 280, 313); the division is exact
\* for the chunk counts of the files above.
Percent(i, totalChunks) == ((i + 1) * 100) \div totalChunks

\* updateUploadProgress (Home.vue 69-75); the entry of the status list is
\* the one handleFileChange made for the file (Home.vue 83-96), kept with
\* the transfer: progress 0, status 'pending'.
updateUploadProgress(C, u, progress, status) ==
  [C EXCEPT !.tr[u].progress = progress, !.tr[u].status = status]

\* fileData.onProgress({ percent }) (Home.vue 315): the percents the entry's
\* callback has been given, in order.
onProgress(C, u, percent) == [C EXCEPT !.tr[u].onProgress = Append(@, percent)]

\* The for loop of Home.vue 276-326 from index i up to its next await: the
\* acknowledged indices are skipped, each with its update of the status list
\* (Home.vue 278-283), the first other one is posted; when no index is left
\* the record is removed and the merge is requested (Home.vue 331-340).
SendLoop(C, u, i) ==
  LET t == C.tr[u]
      rest == {j \in i .. (t.totalChunks - 1) : ~Includes(t.uploadedChunks, j)}
      next == IF rest # {} THEN CHOOSE k \in rest : \A m \in rest : k <= m
              ELSE t.totalChunks
      S == IF i < next
             THEN updateUploadProgress(C, u, Percent(next - 1, t.totalChunks),
                                       "uploading")
             ELSE C
  IN  IF rest # {}
        THEN [S EXCEPT !.tr[u].pc = "send", !.tr[u].i = next,
                       !.tr[u].retry = 0, !.tr[u].attempts = 1,
                       !.tr[u].sent = @ \cup {next}]
        ELSE [S EXCEPT !.tr[u].pc = "merge", !.tr[u].i = t.totalChunks,
                       !.ls[t.fileId] = <<>>]

\* uploadFileWithChunks up to its first await (Home.vue 213-255, 276-302).
StartUpload(C, u) ==
  LET file == PickedFile(u)
      fileId == getFileIdentifier(file)
      totalChunks == TotalChunks(file.compressedSize)
      uploadedChunks == Saved(C.ls[fileId])
      C1 == [C EXCEPT !.cur = @ + 1,
                      !.tr[u] = [NoTransfer EXCEPT
                                   !.fileId = fileId,
                                   !.totalChunks = totalChunks,
                                   !.uploadedChunks = uploadedChunks,
                                   !.loaded = Elems(uploadedChunks)]]
  IN  IF Len(uploadedChunks) = totalChunks
        THEN [C1 EXCEPT !.tr[u].pc = "verify"]
        ELSE SendLoop(C1, u, 0)

\* A loop condition that is off by one.
HasFreeSlotOrFull(cur) == cur <= maxConcurrentUploads

\* processQueue (Home.vue 198-205)
HasFreeSlot(cur) == cur < maxConcurrentUploads

\* A processQueue that takes the entry enqueued last (pop for shift).
RECURSIVE processQueuePop(_)
processQueuePop(C) ==
  IF HasFreeSlot(C.cur) /\ C.q # <<>>
    THEN processQueuePop(StartUpload([C EXCEPT !.q = SubSeq(@, 1, Len(@) - 1)],
                                     C.q[Len(C.q)]))
    ELSE C

RECURSIVE processQueue(_)
processQueue(C) ==
  IF HasFreeSlot(C.cur) /\ C.q # <<>>
    THEN processQueue(StartUpload([C EXCEPT !.q = Tail(@)], Head(C.q)))
    ELSE C

\* An end of a transfer that gives its slot back twice.
FinishReleasesTwice(C, u, outcome) ==
  updateUploadProgress(
    processQueue([C EXCEPT !.cur = @ - 2, !.tr[u].pc = "done",
                           !.tr[u].outcome = outcome]),
    u, IF outcome = "success" THEN 100 ELSE 0, outcome)

\* An end of a transfer that does not look at the queue again.
FinishNoRecheck(C, u, outcome) ==
  updateUploadProgress(
    [C EXCEPT !.cur = @ - 1, !.tr[u].pc = "done", !.tr[u].outcome = outcome],
    u, IF outcome = "success" THEN 100 ELSE 0, outcome)

\* The end of a transfer: currentUploads--, processQueue(), then the
\* callback and the last update of the status list, 100 'success' or
\* 0 'error' (Home.vue 260-263, 349-352, 364-367, 377-380).
Finish(C, u, outcome) ==
  updateUploadProgress(
    processQueue([C EXCEPT !.cur = @ - 1, !.tr[u].pc = "done",
                           !.tr[u].outcome = outcome]),
    u, IF outcome = "success" THEN 100 ELSE 0, outcome)

Becomes(C) ==
  /\ uploadQueue' = C.q
  /\ currentUploads' = C.cur
  /\ localStorage' = C.ls
  /\ transfers' = C.tr
  /\ acknowledged' = C.ack
  /\ ClientFrame

\* customHttpRequest (Home.vue 176-190)
customHttpRequest(u) ==
  /\ transfers[u].pc = "none"
  /\ Becomes(processQueue([ClientState EXCEPT
                             !.q = Append(@, u), !.tr[u].pc = "queued"]))

\* uploadedChunks.push(i) (Home.vue 309)
Pushed(chunks, i) == Append(chunks, i)

\* POST /upload-chunk has answered with success (Home.vue 305-315, then the
\* loop goes on).
ChunkAcknowledged(u) ==
  LET t == transfers[u]
      chunks == Pushed(t.uploadedChunks, t.i)
      progress == Percent(t.i, t.totalChunks)
      C == [ClientState EXCEPT !.tr[u].uploadedChunks = chunks,
                               !.ls[t.fileId] = Stored(chunks),
                               !.ack[t.fileId] = @ \cup {t.i}]
  IN  /\ t.pc = "send"
      /\ Becomes(SendLoop(onProgress(updateUploadProgress(C, u, progress,
                                                         "uploading"),
                                     u, progress),
                          u, t.i + 1))

\* A catch that records the index although the post failed.
ChunkFailedRecorded(u) ==
  LET t == transfers[u]
      chunks == Pushed(t.uploadedChunks, t.i)
      C == [ClientState EXCEPT !.tr[u].uploadedChunks = chunks,
                               !.ls[t.fileId] = Stored(chunks)]
  IN  /\ t.pc = "send"
      /\ IF WaitsAndRetries(t.retry)
           THEN Becomes([C EXCEPT !.tr[u].pc = "backoff"])
           ELSE Becomes(Finish([C EXCEPT !.tr[u].exhausted = TRUE], u, "error"))

\* An outer catch that removes the resume record.
ChunkFailedClears(u) ==
  LET t == transfers[u]
  IN  /\ t.pc = "send"
      /\ IF WaitsAndRetries(t.retry)
           THEN Becomes([ClientState EXCEPT !.tr[u].pc = "backoff"])
           ELSE Becomes(Finish([ClientState EXCEPT !.tr[u].exhausted = TRUE,
                                                   !.ls[t.fileId] = <<>>],
                               u, "error"))

\* POST /upload-chunk has failed (Home.vue 317-324, 375-382).
ChunkFailed(u) ==
  LET t == transfers[u]
  IN  /\ t.pc = "send"
      /\ IF WaitsAndRetries(t.retry)
           THEN Becomes([ClientState EXCEPT !.tr[u].pc = "backoff"])
           ELSE Becomes(Finish([ClientState EXCEPT !.tr[u].exhausted = TRUE],
                               u, "error"))

\* The 1 s timer has fired: retry++ and the loop's condition (Home.vue 300).
BackoffElapsed(u) ==
  LET t == transfers[u]
  IN  /\ t.pc = "backoff"
      /\ IF RetryLoopGoesOn(t.retry + 1, FALSE)
           THEN Becomes([ClientState EXCEPT
                           !.tr[u].pc = "send", !.tr[u].retry = @ + 1,
                           !.tr[u].attempts = @ + 1])
           ELSE Becomes(SendLoop([ClientState EXCEPT !.tr[u].retry = @ + 1],
                                 u, t.i + 1))

\* A failed verification that removes the record but keeps the list.
VerifyAnsweredKeepsList(u, ok) ==
  LET t == transfers[u]
      C == [ClientState EXCEPT !.ls[t.fileId] = <<>>]
  IN  /\ t.pc = "verify"
      /\ IF ok
           THEN Becomes(Finish(C, u, "success"))
           ELSE Becomes(SendLoop(C, u, 0))

\* The merge asked before any chunk is sent has answered (Home.vue 251-272).
VerifyAnswered(u, ok) ==
  LET t == transfers[u]
      C == [ClientState EXCEPT !.ls[t.fileId] = <<>>]
  IN  /\ t.pc = "verify"
      /\ IF ok
           THEN Becomes(Finish(C, u, "success"))
           ELSE Becomes(SendLoop([C EXCEPT !.tr[u].uploadedChunks = <<>>], u, 0))

\* The merge asked after the last chunk has answered with success
\* (Home.vue 336-353).
MergeSucceeded(u) ==
  /\ transfers[u].pc = "merge"
  /\ Becomes(Finish(ClientState, u, "success"))

\* ... or has failed (Home.vue 355-382).
MergeFailed(u, kind) ==
  /\ transfers[u].pc = "merge"
  /\ IF MentionsMissing(ErrorMessage(kind))
       THEN Becomes(Finish(ClientState, u, "success"))
       ELSE Becomes(Finish(ClientState, u, "error"))

ClientStep ==
  \/ \E u \in Uids : customHttpRequest(u)
  \/ \E u \in Uids : ChunkAcknowledged(u)
  \/ \E u \in Uids : ChunkFailed(u)
  \/ \E u \in Uids : BackoffElapsed(u)
  \/ \E u \in Uids, ok \in BOOLEAN : VerifyAnswered(u, ok)
  \/ \E u \in Uids : MergeSucceeded(u)
  \/ \E u \in Uids, kind \in ErrorKinds : MergeFailed(u, kind)

(***************************************************************************)
(* The specifications.                                                     *)
(***************************************************************************)
Init == now = 1 /\ ServerInit /\ WorkerIdle /\ ClientIdle

ServerNext == ServerStep \/ Tick

Next == ServerNext

Spec == Init /\ [][Next]_vars

WorkerNext == WorkerStep \/ Tick

SpecWorker == Init /\ [][WorkerNext]_vars

ClientNext == ClientStep

InitClient == now = 1 /\ ServerInit /\ WorkerIdle /\ ClientInit

SpecClient == InitClient /\ [][ClientNext]_vars

(***************************************************************************)
(* The scheduler under a list of small files (one chunk each, files 3, 4,  *)
(* ...), the first of which may have a resume record: the same actions as  *)
(* SpecClient over another list, short enough for two entries to wait in   *)
(* the queue (SpecQueue) and for behaviours to be checked to their end      *)
(* (SpecFair).                                                             *)
(***************************************************************************)
MaxQueueFiles == 5
MaxFairFiles == 4

SmallUids(n) == 3 .. (n + 2)

SmallInit(n) ==
  LET ids == {getFileIdentifier(PickedFile(u)) : u \in SmallUids(n)}
  IN  /\ uploadQueue = <<>>
      /\ currentUploads = 0
      /\ \E found \in BOOLEAN :
           localStorage =
             [f \in ids |->
                IF found /\ f = getFileIdentifier(PickedFile(3))
                  THEN Stored(<<0>>) ELSE <<>>]
      /\ transfers = [u \in SmallUids(n) |-> NoTransfer]
      /\ acknowledged = [f \in ids |-> Elems(Saved(localStorage[f]))]

QueueUids == SmallUids(MaxQueueFiles)

InitQueue == now = 1 /\ ServerInit /\ WorkerIdle /\ SmallInit(MaxQueueFiles)

\* Here the network answers every chunk post with success; the merges
\* succeed or fail, so that transfers end in either callback in any order.
QueueNext ==
  \/ \E u \in QueueUids : customHttpRequest(u)
  \/ \E u \in QueueUids : ChunkAcknowledged(u)
  \/ \E u \in QueueUids, ok \in BOOLEAN : VerifyAnswered(u, ok)
  \/ \E u \in QueueUids : MergeSucceeded(u)
  \/ \E u \in QueueUids, kind \in ErrorKinds : MergeFailed(u, kind)

SpecQueue == InitQueue /\ [][QueueNext]_vars

FairUids == SmallUids(MaxFairFiles)

InitFair == now = 1 /\ ServerInit /\ WorkerIdle /\ SmallInit(MaxFairFiles)

\* A request in flight is answered, a timer that runs fires.
Returns ==
  \/ \E u \in FairUids : ChunkAcknowledged(u)
  \/ \E u \in FairUids : ChunkFailed(u)
  \/ \E u \in FairUids : BackoffElapsed(u)
  \/ \E u \in FairUids, ok \in BOOLEAN : VerifyAnswered(u, ok)
  \/ \E u \in FairUids : MergeSucceeded(u)
  \/ \E u \in FairUids, kind \in ErrorKinds : MergeFailed(u, kind)

FairNext ==
  \/ \E u \in FairUids : customHttpRequest(u)
  \/ Returns

SpecFair == InitFair /\ [][FairNext]_vars /\ WF_vars(Returns)

(***************************************************************************)
(* The claims about the server.                                            *)
(***************************************************************************)
\* The step in which handler h sends its response.
Responds(h) == handlers[h].pc # "done" /\ handlers'[h].pc = "done"

\* The smallest index below n with no stored blob (n when there is none).
SmallestMissing(store, dirs, f, n) ==
  LET missing == {k \in 0 .. (n - 1) : f \notin dirs \/ store[f][k] = NoBlob}
  IN  IF missing = {} THEN n
      ELSE CHOOSE k \in missing : \A m \in missing : k <= m

\* C1: as long as no artifact is deleted from outside, the merges of one
\* transferId create at most one file in the artifact directory.
C1_AtMostOneArtifact ==
  ~extDeleted => \A f \in FileIds : Cardinality(createdBy[f]) <= 1

\* C2: a merge that starts after a merge with the same arguments has
\* returned success (its artifact still on disk) returns success with the
\* same name, creates no artifact and does not touch the chunk storage.
C2_IdempotentMerge ==
  \A h \in HandlerIds :
    (handlers[h].pc = "done" /\ handlers[h].prior # NoName) =>
      /\ handlers[h].res.status = 200
      /\ handlers[h].res.filename = handlers[h].prior
      /\ ~handlers[h].created
      /\ ~handlers[h].touched

\* C3: a merge that follows the uploads and returns success has produced an
\* artifact whose content is the stored blobs of 0 .. totalChunks-1 in
\* index order.
C3_OrderCorrect ==
  [][\A h \in HandlerIds :
       (/\ Responds(h)
        /\ handlers'[h].res.status = 200
        /\ handlers'[h].created
        /\ handlers'[h].expect # <<>>) =>
         /\ handlers'[h].res.filename \in DOMAIN upload_dir'
         /\ upload_dir'[handlers'[h].res.filename] = handlers'[h].expect]_vars

\* C4: a merge that finds a chunk missing (its directory is there) answers
\* 400 naming the smallest missing index, and has created no file in the
\* artifact directory.
C4_MissingChunkRejected ==
  [][\A h \in HandlerIds :
       (/\ Responds(h)
        /\ handlers'[h].res.status = 400
        /\ handlers'[h].res.message # <<"dir">>) =>
         /\ handlers'[h].res.message =
              <<"chunk", SmallestMissing(temp_chunks', chunkDirs',
                                         handlers'[h].fileId,
                                         handlers'[h].totalChunks)>>
         /\ ~handlers'[h].created]_vars

\* C5: no two merge handlers of one transferId are in the reassembly at the
\* same time.
C5_MergeMutex ==
  \A h1, h2 \in HandlerIds :
    (h1 # h2 /\ handlers[h1].fileId = handlers[h2].fileId) =>
      ~(handlers[h1].pc \in Reassembling /\ handlers[h2].pc \in Reassembling)

\* C6: a merge that found a marker naming an absent artifact has removed
\* that marker; when it answers success it has created the artifact it
\* names, the artifact is on disk, the marker names it, and the name is not
\* the stale name; when all chunks were there and stayed there it answers
\* success.
C6_StaleSelfHeal ==
  [][\A h \in HandlerIds :
       (Responds(h) /\ handlers'[h].stale # NoName) =>
         /\ (handlers'[h].expect # <<>>
               /\ \A j \in 1 .. Len(handlers'[h].expect) :
                     handlers'[h].expect[j] # NoBlob)
              => handlers'[h].res.status = 200
         /\ handlers'[h].res.status = 200 =>
              /\ handlers'[h].created
              /\ handlers'[h].res.filename = handlers'[h].finalFileName
              /\ handlers'[h].res.filename \in DOMAIN upload_dir'
              /\ completed'[handlers'[h].fileId] = handlers'[h].res.filename
              /\ handlers'[h].res.filename # handlers'[h].stale]_vars

\* The step in which handler h opens its write stream (app.js 139).
Opens(h) == ~handlers[h].created /\ handlers'[h].created

\* C23: the path a merge opens for writing is one that no merge, of the same
\* or of another transferId, has opened before, also when the two read the
\* same clock value.
C23_DistinctNames ==
  [][\A h \in HandlerIds :
       Opens(h) =>
         handlers'[h].finalFileName \notin
           UNION {createdBy[f] : f \in FileIds}]_vars

\* A step of /upload-chunk: a request is counted, no merge handler moves and
\* no artifact is deleted.
UploadStep ==
  /\ requests' = requests + 1
  /\ \A h \in HandlerIds : handlers'[h].pc = handlers[h].pc
  /\ DOMAIN upload_dir' = DOMAIN upload_dir

\* A step of merge handler h.
HandlerStep(h) ==
  <<handlers'[h].pc, handlers'[h].i>> # <<handlers[h].pc, handlers[h].i>>

\* The positions of a merge handler up to the end of its chunk loop.
BeforeCleanup == {"idle", "readMarker", "removeMarker", "readChunk"}

\* C24: a merge answers 400 only from a position up to the end of its chunk
\* loop, and no step it takes up to there changes a stored chunk or a chunk
\* directory of any transferId, changes the marker of another transferId or
\* writes a marker; an /upload-chunk request answered with 400 changes no
\* chunk storage.
C24_FailedRequestsFrame ==
  [][/\ \A h \in HandlerIds :
          (Responds(h) /\ handlers'[h].res.status = 400) =>
            handlers[h].pc \in BeforeCleanup
     /\ \A h \in HandlerIds :
          (HandlerStep(h) /\ handlers[h].pc \in BeforeCleanup) =>
            /\ temp_chunks' = temp_chunks
            /\ chunkDirs' = chunkDirs
            /\ \A f \in FileIds :
                 completed'[f] # completed[f] =>
                   f = handlers'[h].fileId /\ completed'[f] = NoName
     /\ (UploadStep /\ chunkRes' = 400) =>
          temp_chunks' = temp_chunks /\ chunkDirs' = chunkDirs
    ]_vars

\* A merge of f1 has answered 400 for chunk 1 with chunk 0 still stored,
\* f2 has its marker, and the last /upload-chunk request was answered 400.
C24_Witness ==
  /\ \E h \in HandlerIds :
       /\ handlers[h].pc = "done"
       /\ handlers[h].fileId = "f1"
       /\ handlers[h].res.status = 400
       /\ handlers[h].res.message = <<"chunk", 1>>
  /\ ChunkExists("f1", 0)
  /\ completed["f1"] = NoName
  /\ completed["f2"] # NoName
  /\ chunkRes = 400

\* C18: there is no state in which a merge has deleted the chunk storage of
\* its transfer and the marker naming its artifact is not yet written.
C18_MarkerBeforeCleanup ==
  \A h \in HandlerIds :
    handlers[h].pc = "writeMarker" =>
      completed[handlers[h].fileId] = handlers[h].finalFileName

(***************************************************************************)
(* The claims about the correlator.                                        *)
(***************************************************************************)
\* C7: every promise that has settled on a reply has settled on the reply to
\* its own request: a resolved promise holds the worker's output for its own
\* input, whatever the order of the replies.
C7_CorrelatorIsolation ==
  \A t \in TaskIds :
    /\ tasks[t].state = "resolved" =>
         /\ tasks[t].settledBy = t
         /\ tasks[t].value.file = compressImage(tasks[t].file)
         /\ tasks[t].value._originalFile.name = tasks[t].file.name
    /\ tasks[t].state = "rejected" => tasks[t].settledBy \in {0, t}

\* Three submissions of files of one name and one size, made at one clock
\* value, all resolved, the last submitted settled first.
C7_Witness ==
  /\ \A t \in TaskIds : tasks[t].state = "resolved"
  /\ \A t \in TaskIds : tasks[t].taskId[3] = tasks[1].taskId[3]
  /\ \A t \in TaskIds : tasks[t].file.size = tasks[1].file.size
  /\ Len(settleSeq) = MaxTasks
  /\ settleSeq[1] = MaxTasks


(***************************************************************************)
(* The scheduler and the uploader (SpecClient).                            *)
(***************************************************************************)
Started == {u \in Uids : transfers[u].pc \in Active}

AllChunks(t) == 0 .. (t.totalChunks - 1)

\* C8 - bounded concurrency: in every reachable state the files whose
\* transfer has started and has not yet reached its outcome are at most
\* maxConcurrentUploads = 3, and currentUploads counts exactly them.
C8_BoundedConcurrency ==
  /\ currentUploads <= maxConcurrentUploads
  /\ Cardinality(Started) = currentUploads
  /\ maxConcurrentUploads = 3

\* Three transfers run and a fourth file waits in the queue.
C8_Witness ==
  /\ currentUploads = maxConcurrentUploads
  /\ Cardinality(Started) = maxConcurrentUploads
  /\ uploadQueue # <<>>

\* C9 - resume correctness: a run of uploadFileWithChunks that started with
\* a resume record holding a proper subset A of 0 .. totalChunks-1 sends no
\* index of A, and when it requests the merge it has sent exactly the
\* indices outside A.
C9_ResumeCorrect ==
  \A u \in Uids :
    LET t == transfers[u]
    IN  (t.pc # "none" /\ t.pc # "queued" /\ t.loaded \subseteq AllChunks(t)
         /\ t.loaded # AllChunks(t))
        => /\ t.sent \cap t.loaded = {}
           /\ t.pc = "merge" => t.sent = AllChunks(t) \ t.loaded

\* A run that resumed from a record that is neither empty nor complete asks
\* for the merge.
C9_Witness ==
  \E u \in Uids :
    LET t == transfers[u]
    IN  /\ t.pc = "merge"
        /\ t.loaded # {}
        /\ t.loaded # AllChunks(t)
        /\ t.sent # {}

Acknowledges(u) ==
  /\ transfers[u].pc = "send"
  /\ transfers'[u].uploadedChunks # transfers[u].uploadedChunks

Fails(u) ==
  /\ transfers[u].pc = "send"
  /\ transfers'[u].uploadedChunks = transfers[u].uploadedChunks
  /\ transfers'[u] # transfers[u]

\* C10 - bounded retry: a chunk is posted at most 3 times; the first success
\* ends the attempts for it (the run goes on to a later chunk or to the
\* merge, also when the success is the third attempt); the third failure
\* ends the run with the error callback, after which the run posts no chunk
\* and requests no merge.
C10_BoundedRetry ==
  [][\A u \in Uids :
       LET t == transfers[u]
           t2 == transfers'[u]
       IN  /\ t2.attempts <= 3
           /\ t2.pc = "send" => ~Includes(t2.uploadedChunks, t2.i)
           /\ Acknowledges(u) =>
                /\ t2.uploadedChunks = Append(t.uploadedChunks, t.i)
                /\ \/ t2.pc = "send" /\ t2.i > t.i /\ t2.attempts = 1
                   \/ t2.pc = "merge" /\ t2.i = t.totalChunks
           /\ (Fails(u) /\ t.attempts < 3) =>
                /\ t2.pc = "backoff" /\ t2.i = t.i /\ t2.sent = t.sent
           /\ (t.pc = "backoff") =>
                \/ t2 = t
                \/ t2.pc = "send" /\ t2.i = t.i /\ t2.attempts = t.attempts + 1
           /\ (Fails(u) /\ t.attempts = 3) =>
                /\ t2.pc = "done" /\ t2.outcome = "error" /\ t2.exhausted
                /\ t2.sent = t.sent
           /\ t.exhausted => t2 = t
           /\ t2.exhausted => t2.pc = "done" /\ t2.outcome = "error"
    ]_vars

\* One run has ended on a third failure, and another asks for the merge
\* after its last chunk was acknowledged at the third attempt.
C10_Witness ==
  \E u, v \in Uids :
    /\ transfers[u].exhausted
    /\ transfers[u].sent # AllChunks(transfers[u])
    /\ transfers[v].pc = "merge"
    /\ transfers[v].attempts = 3

\* C11: the resume record of a transferId is removed only in a step in
\* which a merge request of a transfer of that transferId returns, and a
\* merge that ends in the error callback leaves the acknowledged indices in
\* the record.
C11_ClearedAfterMerge ==
  [][/\ \A f \in ClientFileIds :
          (localStorage[f] # <<>> /\ localStorage'[f] = <<>>) =>
            \E u \in Uids :
              /\ transfers[u].fileId = f
              /\ transfers[u].pc \in {"merge", "verify"}
              /\ transfers'[u].pc # transfers[u].pc
     /\ \A u \in Uids :
          (/\ transfers[u].pc = "merge"
           /\ transfers'[u].pc = "done"
           /\ transfers'[u].outcome = "error") =>
            Elems(transfers[u].uploadedChunks)
              \subseteq Elems(Saved(localStorage'[transfers[u].fileId]))
    ]_vars

\* C12: every index in the resume record of a transferId is one that
\* /upload-chunk has acknowledged for that transferId; the index of a post
\* that failed or is still in flight is not in it.
C12_AcknowledgedOnly ==
  /\ \A f \in ClientFileIds :
       Elems(Saved(localStorage[f])) \subseteq acknowledged[f]
  /\ \A u \in Uids :
       transfers[u].pc \in {"send", "backoff"} =>
         ~Includes(transfers[u].uploadedChunks, transfers[u].i)

\* A run whose post of chunk 1 failed and is waiting, after chunk 0 was
\* acknowledged and recorded in this run.
C12_Witness ==
  \E u \in Uids :
    LET t == transfers[u]
    IN  /\ t.pc = "backoff"
        /\ t.loaded = {}
        /\ t.i = 1
        /\ Saved(localStorage[t.fileId]) = <<0>>
        /\ acknowledged[t.fileId] = {0}

\* The step in which the worker's 'error' event is delivered.
ErrorEvent == errListeners # {} /\ errListeners' = {} /\ outbox' = outbox

\* C13: the worker's 'error' event rejects every outstanding submission:
\* none stays pending, every pending promise has its handleError and its
\* handleMessage registered until it settles, and a rejected promise is never
\* resolved by a later reply.
C13_ErrorRejectsAll ==
  [][/\ ErrorEvent =>
          /\ \A t \in TaskIds :
               tasks[t].state = "pending" => tasks'[t].state = "rejected"
          /\ \A t \in TaskIds : tasks'[t].state # "pending"
          /\ msgListeners' = {}
     /\ \A t \in TaskIds :
          tasks'[t].state = "pending" =>
            t \in errListeners' /\ t \in msgListeners'
     /\ \A t \in TaskIds :
          tasks[t].state = "rejected" => tasks'[t] = tasks[t]
    ]_vars

\* Every submission was outstanding when the error came, all are rejected by
\* it, and the worker's replies to them have been delivered since.
C13_Witness ==
  /\ worker
  /\ \A t \in TaskIds : tasks[t].state = "rejected" /\ tasks[t].settledBy = 0
  /\ inbox = {}
  /\ outbox = <<>>

\* The submissions whose promise has not settled.
Outstanding(tk) == {t \in TaskIds : tk[t].state = "pending"}

\* The step in which the 'message' event of the oldest reply is delivered.
MessageEvent == worker /\ worker' /\ outbox # <<>> /\ outbox' = Tail(outbox)

\* C21: the message listeners and the error listeners registered on the
\* worker are those of the outstanding submissions, before and after every
\* step, so there are none once all have settled; a request is posted only
\* with both listeners of its submission registered; a reply removes both
\* listeners of the submission with its taskId and leaves those of every
\* other submission registered; a worker error removes all of them.
C21_ListenerLifecycle ==
  [][/\ msgListeners = Outstanding(tasks) /\ errListeners = Outstanding(tasks)
     /\ msgListeners' = Outstanding(tasks') /\ errListeners' = Outstanding(tasks')
     /\ Cardinality(msgListeners') = Cardinality(Outstanding(tasks'))
     /\ \A req \in inbox' \ inbox :
          \E t \in msgListeners' \cap errListeners' :
            tasks'[t].taskId = req.taskId
     /\ MessageEvent =>
          \A t \in msgListeners :
            IF tasks[t].taskId = Head(outbox).taskId
              THEN t \notin msgListeners' /\ t \notin errListeners'
              ELSE t \in msgListeners' /\ t \in errListeners'
     /\ ErrorEvent => msgListeners' = {} /\ errListeners' = {}
    ]_vars

\* One submission was rejected by a worker error, a later one is resolved by
\* its reply, and a third, submitted before that reply was delivered, is
\* still outstanding with its listeners registered and its reply waiting.
C21_Witness ==
  /\ worker
  /\ tasks[3].state = "rejected" /\ tasks[3].settledBy = 0
  /\ tasks[2].state = "resolved"
  /\ tasks[1].state = "pending"
  /\ msgListeners = {1} /\ errListeners = {1}
  /\ inbox = {}
  /\ Len(outbox) = 1 /\ Head(outbox).taskId = tasks[1].taskId

\* The index the loop has processed last, for a run inside or past its loop.
InLoop(t) == t.pc \in {"send", "backoff", "merge"} /\ t.i > 0

\* C22: once the loop has passed chunk index i, skipped or sent, the status
\* list shows (i+1)/totalChunks*100 for the file and the entry's progress
\* callback was last given the same percent.
C22_ProgressAccounting ==
  \A u \in Uids :
    LET t == transfers[u]
    IN  InLoop(t) =>
          /\ t.progress = Percent(t.i - 1, t.totalChunks)
          /\ t.onProgress # <<>>
          /\ t.onProgress[Len(t.onProgress)] = Percent(t.i - 1, t.totalChunks)

\* C14: a run that has sent every chunk itself and whose merge request is
\* answered with the server's 400 for missing data ends with the success
\* callback.
C14_ToleratedSuccess ==
  [][\A u \in Uids :
       (/\ transfers[u].loaded = {}
        /\ transfers[u].sent = AllChunks(transfers[u])
        /\ MergeFailed(u, "http400")) =>
         transfers'[u].outcome = "success"]_vars

\* The run of u found a resume record holding totalChunks indices.
FoundComplete(t) ==
  t.pc \notin {"none", "queued"} /\ Cardinality(t.loaded) = t.totalChunks

\* C15: a run that finds a record holding totalChunks indices first asks
\* the server to merge and sends nothing; it ends in success from there only
\* through that answer; when the answer is a failure the record is removed,
\* the list is emptied and chunk 0 is posted; and when such a run asks for
\* the merge again it has posted every index 0 .. totalChunks-1.
C15_NoUnilateralCompletion ==
  [][\A u \in Uids :
       LET t == transfers[u]
           t2 == transfers'[u]
       IN  /\ (t.pc \in {"none", "queued"} /\ FoundComplete(t2)) =>
                t2.pc = "verify" /\ t2.sent = {}
           /\ (t.pc = "verify" /\ t2 # t) =>
                \/ /\ t2.pc = "done" /\ t2.outcome = "success"
                   /\ localStorage'[t.fileId] = <<>>
                \/ /\ t2.pc = "send" /\ t2.i = 0 /\ t2.sent = {0}
                   /\ t2.uploadedChunks = <<>>
                   /\ localStorage'[t.fileId] = <<>>
           /\ VerifyAnswered(u, FALSE) => t2.pc = "send"
           /\ (FoundComplete(t2) /\ t2.pc = "merge") =>
                t2.sent = AllChunks(t2)
           /\ (FoundComplete(t2) /\ t2.pc = "done" /\ t2.outcome = "success"
               /\ t2 # t) => t.pc \in {"verify", "merge"}
    ]_vars

\* A run that found a complete record, was refused by the server, has posted
\* every chunk again and asks for the merge a second time.
C15_Witness ==
  \E u \in Uids :
    /\ FoundComplete(transfers[u])
    /\ transfers[u].pc = "merge"
    /\ transfers[u].sent = AllChunks(transfers[u])
    /\ Len(transfers[u].uploadedChunks) = transfers[u].totalChunks

\* The step in which the run of u gives up on a chunk.
Exhausts(u) == ~transfers[u].exhausted /\ transfers'[u].exhausted

\* No other run of the list has the transferId of u's run.
AloneOnId(u) ==
  \A v \in Uids \ {u} : transfers[v].fileId # transfers[u].fileId

\* C17 as stated: when a run ends because a chunk used up its attempts, the
\* record holds exactly the indices loaded at the start and those
\* acknowledged in the run.
C17_AcknowledgedSurvive ==
  [][\A u \in Uids :
       Exhausts(u) =>
         /\ Elems(Saved(localStorage'[transfers[u].fileId]))
              \subseteq
                transfers[u].loaded \cup Elems(transfers[u].uploadedChunks)
         /\ transfers[u].loaded \cup Elems(transfers[u].uploadedChunks)
              \subseteq
                Elems(Saved(localStorage'[transfers[u].fileId]))
    ]_vars

\* C17 amended: the failure leaves the record as it is, and when no other
\* run has the same transferId the record holds exactly the run's list: the
\* indices acknowledged in the run and, unless the verification merge failed
\* and discarded them, those loaded at the start.
C17_RecordLeftAsWritten ==
  [][\A u \in Uids :
       Exhausts(u) =>
         /\ localStorage' = localStorage
         /\ AloneOnId(u) =>
              Elems(Saved(localStorage'[transfers[u].fileId]))
                = Elems(transfers[u].uploadedChunks)
    ]_vars

\* A run of two chunks, alone on its transferId, started without a record,
\* had chunk 0 acknowledged and gave up on chunk 1: the record holds 0.
C17_Witness ==
  \E u \in Uids :
    /\ transfers[u].exhausted
    /\ AloneOnId(u)
    /\ transfers[u].loaded = {}
    /\ transfers[u].uploadedChunks = <<0>>
    /\ Saved(localStorage[transfers[u].fileId]) = <<0>>

\* The transfers that start, and those that end, in a step.
Starting ==
  {u \in Uids : transfers[u].pc \in {"none", "queued"}
                /\ transfers'[u].pc \notin {"none", "queued"}}
Ending ==
  {u \in Uids : transfers[u].pc # "done" /\ transfers'[u].pc = "done"}

\* C19: every step changes currentUploads by the transfers it starts minus
\* the transfers it ends; a transfer ends only after it has started and never
\* again afterwards; the step that ends one has looked at the queue (the
\* queue is empty or every slot is taken after it); currentUploads is the
\* number of started transfers that have not ended and is never negative.
C19_SlotAccounting ==
  [][/\ currentUploads' =
          currentUploads + Cardinality(Starting) - Cardinality(Ending)
     /\ \A u \in Ending : transfers[u].pc \in Active
     /\ \A u \in Uids : transfers[u].pc = "done" => transfers'[u] = transfers[u]
     /\ Ending # {} =>
          uploadQueue' = <<>> \/ currentUploads' = maxConcurrentUploads
     /\ currentUploads' >= 0
     /\ currentUploads' = Cardinality(Started')
    ]_vars

\* All four transfers have ended and every slot is free again: one by the
\* verification merge, one by a merge after its posts, one by a failed merge,
\* one by the third failure of a post.
C19_Witness ==
  /\ currentUploads = 0
  /\ \A u \in Uids : transfers[u].pc = "done"
  /\ \E u \in Uids :
       /\ transfers[u].outcome = "success"
       /\ FoundComplete(transfers[u]) /\ transfers[u].sent = {}
  /\ \E u \in Uids :
       transfers[u].outcome = "success" /\ transfers[u].sent # {}
  /\ \E u \in Uids :
       transfers[u].outcome = "error" /\ ~transfers[u].exhausted
  /\ \E u \in Uids : transfers[u].exhausted

(***************************************************************************)
(* The scheduler over time (SpecFair, SpecQueue).                          *)
(***************************************************************************)
\* C16: when every request is answered and every timer fires, every entry
\* that customHttpRequest has put in the queue is started and reaches its
\* callback, whatever the other transfers do: from some moment on every file
\* is either one that was never handed over or one whose transfer has ended
\* (a transfer never goes back to an earlier position).
C16_NoStarvation ==
  <>[](\A u \in FairUids : transfers[u].pc \in {"none", "done"})

\* More entries than slots have all reached their callback, one of them by
\* the third failure of a post, one by a failed merge, one by success.
C16_Witness ==
  /\ \A u \in FairUids : transfers[u].pc = "done"
  /\ \E u \in FairUids : transfers[u].exhausted
  /\ \E u \in FairUids :
       transfers[u].outcome = "error" /\ ~transfers[u].exhausted
  /\ \E u \in FairUids : transfers[u].outcome = "success"

\* The queue of a step with the entry the step enqueues, if any, at its end.
Enqueued ==
  {u \in QueueUids : transfers[u].pc = "none" /\ transfers'[u].pc # "none"}

QueueWithEnqueued ==
  IF Enqueued = {} THEN uploadQueue
  ELSE Append(uploadQueue, CHOOSE u \in Enqueued : TRUE)

StartingInQueue ==
  {u \in QueueUids : transfers[u].pc \in {"none", "queued"}
                     /\ transfers'[u].pc \notin {"none", "queued"}}

\* C20: transfers start in the order of their enqueueing: a step enqueues at
\* most one entry, at the tail; the entries that start in a step are exactly
\* those of a head part of the queue, and the rest of the queue stays in its
\* order; so an entry enqueued before another starts no later than it,
\* whatever transfer has just ended.
C20_FifoStart ==
  [][/\ Cardinality(Enqueued) <= 1
     /\ \E k \in 0 .. Len(QueueWithEnqueued) :
          /\ uploadQueue' =
               SubSeq(QueueWithEnqueued, k + 1, Len(QueueWithEnqueued))
          /\ StartingInQueue = {QueueWithEnqueued[j] : j \in 1 .. k}
    ]_vars

\* Every slot is taken and two entries wait in the queue.
C20_Witness ==
  /\ currentUploads = maxConcurrentUploads
  /\ Len(uploadQueue) = 2

=============================================================================
